---- MODULE Spec2Model ----
(***************************************************************************)
(* A model of the format catalogue (sort, filter), the player-response     *)
(* parser, the stream resolver and the split-mode download orchestrator    *)
(* of the youtube package and its downloader.                              *)
(*                                                                         *)
(* Go strings are TLA+ strings; Len, SubSeq and \o act on them character   *)
(* by character, so substring and prefix tests are computed, not assumed.  *)
(***************************************************************************)
EXTENDS Integers, Sequences, FiniteSets, TLC

VARIABLES
    sortList,   \* SortFormat: the FormatList the comparator indexes into
    cmp,        \* SortFormat: the last comparison made, or NoCmp
    receiver,   \* FormatList filters: the receiver
    tokens,     \* FormatList filters: the quality or codec argument
    filtered,   \* FormatList filters: the call made and the list returned
    body,       \* parser: the server's answer handed to the parser
    video,      \* parser: the Video being filled
    perr,       \* parser: the error the parse returned
    ppc,        \* parser: "new", or the source parsed ("info", "page")
    call,       \* downloader: the arguments of DownloadWithHighQuality
    fsys,       \* downloader: output directory, destination, temporary files
    pc,         \* downloader: the position of the call
    stream,     \* downloader: the stream videoDLWorker works on
    picked,     \* downloader: videoFormat and audioFormat
    result,     \* downloader: the error returned, once pc = "done"
    cancelled,  \* downloader: ctx is done
    deferred,   \* downloader: the deferred os.Remove calls, last first
    log,        \* downloader: the states entered, each with ctx's state
    requests,   \* downloader: the GET requests sent
    resolved    \* downloader: the stream URL resolutions made

sortVars == <<sortList, cmp>>
filterVars == <<receiver, tokens, filtered>>
parseVars == <<body, video, perr, ppc>>
dlVars == <<call, fsys, pc, stream, picked, result, cancelled, deferred, log,
            requests, resolved>>

vars == <<sortVars, filterVars, parseVars, dlVars>>

(***************************************************************************)
(* strings                                                                 *)
(***************************************************************************)

\* strings.Contains(s, substr)
Contains(s, substr) ==
    \E k \in 0..(Len(s) - Len(substr)) : SubSeq(s, k + 1, k + Len(substr)) = substr

\* strings.HasPrefix(s, prefix)
HasPrefix(s, prefix) ==
    Len(s) >= Len(prefix) /\ SubSeq(s, 1, Len(prefix)) = prefix

\* the byte value of a character, for the characters the model's strings use
\* in ordered comparisons (ASCII digits)
ByteOf(c) ==
    CASE c = "0" -> 48 [] c = "1" -> 49 [] c = "2" -> 50 [] c = "3" -> 51
      [] c = "4" -> 52 [] c = "5" -> 53 [] c = "6" -> 54 [] c = "7" -> 55
      [] c = "8" -> 56 [] c = "9" -> 57 [] OTHER -> 128

IsDigit(c) == ByteOf(c) < 128

\* Go's > on strings: bytewise lexicographic order
RECURSIVE StringGreater(_, _)
StringGreater(a, b) ==
    IF Len(a) = 0 THEN FALSE
    ELSE IF Len(b) = 0 THEN TRUE
    ELSE LET ca == ByteOf(SubSeq(a, 1, 1))
             cb == ByteOf(SubSeq(b, 1, 1))
         IN  IF ca # cb THEN ca > cb
             ELSE StringGreater(SubSeq(a, 2, Len(a)), SubSeq(b, 2, Len(b)))

\* the value of a non-empty string of decimal digits
RECURSIVE DigitsValue(_)
DigitsValue(s) ==
    IF Len(s) = 0 THEN 0
    ELSE 10 * DigitsValue(SubSeq(s, 1, Len(s) - 1))
         + (ByteOf(SubSeq(s, Len(s), Len(s))) - 48)

AllDigits(s) == Len(s) > 0 /\ \A k \in 1..Len(s) : IsDigit(SubSeq(s, k, k))

\* strconv.Atoi(s): an optional sign and decimal digits; err is TRUE on a
\* syntax error, and the value returned with an error is 0
AtoiSigned(s) ==
    LET signed == Len(s) > 0 /\ SubSeq(s, 1, 1) \in {"+", "-"}
        digits == IF signed THEN SubSeq(s, 2, Len(s)) ELSE s
    IN  IF ~AllDigits(digits) THEN [value |-> 0, err |-> TRUE]
        ELSE [value |-> IF signed /\ SubSeq(s, 1, 1) = "-"
                        THEN 0 - DigitsValue(digits) ELSE DigitsValue(digits),
              err |-> FALSE]

(***************************************************************************)
(* Format and SortFormat                                                   *)
(***************************************************************************)

\* a Format value; fields as in the Format struct the package's code reads
Format(itag, mime, quality, label, width, fps, bitrate, channels, rate, url, cipher) ==
    [ItagNo |-> itag, MimeType |-> mime, Quality |-> quality,
     QualityLabel |-> label, Width |-> width, FPS |-> fps, Bitrate |-> bitrate,
     AudioChannels |-> channels, AudioSampleRate |-> rate, URL |-> url,
     Cipher |-> cipher]

\* codec[index] of the audio branch: a Go map, so a MIME type that matches
\* neither substring reads back the zero value
AudioCodec(f) ==
    IF Contains(f.MimeType, "mp4") THEN 1
    ELSE IF Contains(f.MimeType, "opus") THEN 2
    ELSE 0

\* codec[index] of the video branch
VideoCodec(f) ==
    IF Contains(f.MimeType, "av01") THEN 1
    ELSE IF Contains(f.MimeType, "vp9") THEN 2
    ELSE IF Contains(f.MimeType, "avc1") THEN 3
    ELSE 0

\* the condition that sends a comparison to the audio branch
AudioBranch(a, b) == a.FPS = 0 /\ a.AudioChannels > 0 /\ b.AudioChannels > 0

SortFormat(i, j, formats) ==
    LET a == formats[i]
        b == formats[j]
    IN  IF a.Width = b.Width
        THEN IF a.FPS = b.FPS
             THEN IF AudioBranch(a, b)
                  THEN IF AudioCodec(a) = AudioCodec(b)
                       THEN IF a.AudioChannels = b.AudioChannels
                            THEN IF a.Bitrate = b.Bitrate
                                 THEN StringGreater(a.AudioSampleRate, b.AudioSampleRate)
                                 ELSE a.Bitrate > b.Bitrate
                            ELSE a.AudioChannels > b.AudioChannels
                       ELSE AudioCodec(a) < AudioCodec(b)
                  ELSE IF VideoCodec(a) = VideoCodec(b)
                       THEN a.Bitrate > b.Bitrate
                       ELSE VideoCodec(a) < VideoCodec(b)
             ELSE a.FPS > b.FPS
        ELSE a.Width > b.Width

(***************************************************************************)
(* FormatList.FilterQuality and FormatList.FilterCodec                     *)
(***************************************************************************)

\* the inner loop of FilterQuality over quality[k..]: TRUE when format f is
\* appended
RECURSIVE QualityLoop(_, _, _)
QualityLoop(f, quality, k) ==
    IF k > Len(quality) THEN FALSE
    ELSE LET q == quality[k]
             itag == AtoiSigned(q).value
         IN  IF itag = f.ItagNo THEN TRUE
             ELSE IF Contains(f.Quality, q) \/ Contains(f.QualityLabel, q) THEN TRUE
             ELSE QualityLoop(f, quality, k + 1)

\* FormatList.FilterQuality: the outer loop, over fl[k..], appending to acc
RECURSIVE FilterQualityFrom(_, _, _, _)
FilterQualityFrom(fl, quality, k, acc) ==
    IF k > Len(fl) THEN acc
    ELSE FilterQualityFrom(fl, quality, k + 1,
            IF QualityLoop(fl[k], quality, 1) THEN Append(acc, fl[k]) ELSE acc)

FilterQualityList(fl, quality) == FilterQualityFrom(fl, quality, 1, <<>>)

\* the inner loop of FilterCodec appending f when one string of codec[k..]
\* is contained
CodecLoopAny(f, codec, k) ==
    \E i \in k..Len(codec) : Contains(f.MimeType, codec[i])

\* the inner loop of FilterCodec over codec[k..]: FALSE when the loop
\* continues with the next format without appending f
RECURSIVE CodecLoop(_, _, _)
CodecLoop(f, codec, k) ==
    IF k > Len(codec) THEN TRUE
    ELSE IF ~Contains(f.MimeType, codec[k]) THEN FALSE
    ELSE CodecLoop(f, codec, k + 1)

RECURSIVE FilterCodecFrom(_, _, _, _)
FilterCodecFrom(fl, codec, k, acc) ==
    IF k > Len(fl) THEN acc
    ELSE FilterCodecFrom(fl, codec, k + 1,
            IF CodecLoop(fl[k], codec, 1) THEN Append(acc, fl[k]) ELSE acc)

FilterCodecList(fl, codec) == FilterCodecFrom(fl, codec, 1, <<>>)

(***************************************************************************)
(* sort.SliceStable and Video.SortFormats                                  *)
(***************************************************************************)

Swap(fl, a, b) == [fl EXCEPT ![a] = fl[b], ![b] = fl[a]]

\* the inner loop of insertion sort: for j; j > a && less(j, j-1); j--
RECURSIVE InsertBack(_, _)
InsertBack(fl, j) ==
    IF j > 1 /\ SortFormat(j, j - 1, fl)
    THEN InsertBack(Swap(fl, j, j - 1), j - 1)
    ELSE fl

RECURSIVE InsertionSortFrom(_, _)
InsertionSortFrom(fl, i) ==
    IF i > Len(fl) THEN fl ELSE InsertionSortFrom(InsertBack(fl, i), i + 1)

\* sort.SliceStable with SortFormat as less: below its block size of 20
\* elements the library's stable sort is one insertion sort
SliceStable(fl) == InsertionSortFrom(fl, 2)

SortFormats(v) ==
    [v EXCEPT !.Formats = SliceStable(v.Formats),
              !.VideoAudioFormats = SliceStable(v.VideoAudioFormats),
              !.AudioFormats = SliceStable(v.AudioFormats),
              !.VideoFormats = SliceStable(v.VideoFormats)]

(***************************************************************************)
(* Video: parsing the server's answer                                      *)
(***************************************************************************)

NilErr == [kind |-> "nil", status |-> "", reason |-> ""]
ErrorOf(kind) == [kind |-> kind, status |-> "", reason |-> ""]
ErrResponseStatus(status, reason) ==
    [kind |-> "ErrResponseStatus", status |-> status, reason |-> reason]
ErrPlayabiltyStatus(status, reason) ==
    [kind |-> "ErrPlayabiltyStatus", status |-> status, reason |-> reason]
ErrNotPlayableInEmbed == ErrorOf("ErrNotPlayableInEmbed")

\* &Video{ID: id}
NewVideo(id) ==
    [ID |-> id, Title |-> "", Description |-> "", Author |-> "", Duration |-> 0,
     Formats |-> <<>>, AudioFormats |-> <<>>, VideoFormats |-> <<>>,
     VideoAudioFormats |-> <<>>, Thumbnails |-> <<>>,
     DASHManifestURL |-> "", HLSManifestURL |-> ""]

\* isVideoDownloadable without the test of the source
isVideoDownloadableAnySource(prData, isVideoPage) ==
    IF prData.PlayabilityStatus.Status = "OK" THEN NilErr
    ELSE IF ~prData.PlayabilityStatus.PlayableInEmbed
    THEN ErrNotPlayableInEmbed
    ELSE ErrPlayabiltyStatus(prData.PlayabilityStatus.Status,
                             prData.PlayabilityStatus.Reason)

isVideoDownloadable(prData, isVideoPage) ==
    IF prData.PlayabilityStatus.Status = "OK" THEN NilErr
    ELSE IF ~isVideoPage /\ ~prData.PlayabilityStatus.PlayableInEmbed
    THEN ErrNotPlayableInEmbed
    ELSE ErrPlayabiltyStatus(prData.PlayabilityStatus.Status,
                             prData.PlayabilityStatus.Reason)

\* IsAudio without the test of the MIME prefix
IsAudioAnyOther(f) == ~HasPrefix(f.MimeType, "video")

IsVideoOnly(f) == HasPrefix(f.MimeType, "video") /\ f.AudioChannels = 0
IsVideoAudio(f) == HasPrefix(f.MimeType, "video") /\ f.AudioChannels # 0
IsAudio(f) == ~HasPrefix(f.MimeType, "video") /\ HasPrefix(f.MimeType, "audio")

\* the Video and the error extractDataFromPlayerResponse leaves
extractDataFromPlayerResponse(v, prData) ==
    LET seconds == AtoiSigned(prData.LengthSeconds).value
        all == prData.StreamingData.Formats \o prData.StreamingData.AdaptiveFormats
        v1 == [v EXCEPT !.Title = prData.VideoDetails.Title,
                        !.Description = prData.VideoDetails.ShortDescription,
                        !.Author = prData.VideoDetails.Author,
                        !.Thumbnails = prData.VideoDetails.Thumbnails,
                        !.Duration = IF seconds > 0 THEN seconds ELSE v.Duration]
        v2 == [v1 EXCEPT !.Formats = all,
                         !.VideoFormats = v.VideoFormats \o SelectSeq(all, IsVideoOnly),
                         !.VideoAudioFormats =
                             v.VideoAudioFormats \o SelectSeq(all, IsVideoAudio),
                         !.AudioFormats = v.AudioFormats \o SelectSeq(all, IsAudio)]
    IN  IF Len(all) = 0
        THEN [v |-> v2, err |-> ErrorOf("no formats found")]
        ELSE [v |-> [SortFormats(v2) EXCEPT
                        !.HLSManifestURL = prData.StreamingData.HlsManifestURL,
                        !.DASHManifestURL = prData.StreamingData.DashManifestURL],
              err |-> NilErr]

\* the answer of the get_video_info endpoint: b.query is the outcome of
\* url.ParseQuery, b.pr the player_response value
parseVideoInfo(v, b) ==
    IF ~b.queryOK THEN [v |-> v, err |-> ErrorOf("ParseQuery")]
    ELSE IF b.status # "ok"
    THEN [v |-> v, err |-> ErrResponseStatus(b.status, b.reason)]
    ELSE IF b.pr.kind = "missing"
    THEN [v |-> v, err |-> ErrorOf("no player_response found")]
    ELSE IF b.pr.kind = "invalid"
    THEN [v |-> v, err |-> ErrorOf("unable to parse player response JSON")]
    ELSE IF isVideoDownloadable(b.pr.data, FALSE) # NilErr
    THEN [v |-> v, err |-> isVideoDownloadable(b.pr.data, FALSE)]
    ELSE extractDataFromPlayerResponse(v, b.pr.data)

\* the watch page: b.pr.kind is "missing" when playerResponsePattern does
\* not match
parseVideoPage(v, b) ==
    IF b.pr.kind = "missing"
    THEN [v |-> v, err |-> ErrorOf("no ytInitialPlayerResponse found")]
    ELSE IF b.pr.kind = "invalid"
    THEN [v |-> v, err |-> ErrorOf("unable to parse player response JSON")]
    ELSE IF isVideoDownloadable(b.pr.data, TRUE) # NilErr
    THEN [v |-> v, err |-> isVideoDownloadable(b.pr.data, TRUE)]
    ELSE extractDataFromPlayerResponse(v, b.pr.data)

\* Video.FilterCodec and Video.FilterQuality: all four views, then the sort
VideoFilterCodec(v, codec) ==
    SortFormats([v EXCEPT
        !.Formats = FilterCodecList(v.Formats, codec),
        !.VideoAudioFormats = FilterCodecList(v.VideoAudioFormats, codec),
        !.AudioFormats = FilterCodecList(v.AudioFormats, codec),
        !.VideoFormats = FilterCodecList(v.VideoFormats, codec)])

VideoFilterQuality(v, quality) ==
    SortFormats([v EXCEPT
        !.Formats = FilterQualityList(v.Formats, quality),
        !.VideoAudioFormats = FilterQualityList(v.VideoAudioFormats, quality),
        !.AudioFormats = FilterQualityList(v.AudioFormats, quality),
        !.VideoFormats = FilterQualityList(v.VideoFormats, quality)])

(***************************************************************************)
(* Client: stream resolution                                               *)
(***************************************************************************)

ErrCipherNotFound == ErrorOf("ErrCipherNotFound")

\* GetStreamURLContext deciphering whenever there is a cipher payload
GetStreamURLContextCipherFirst(videoID, format, decipher) ==
    IF format.Cipher # ""
    THEN [url |-> decipher.url, err |-> decipher.err,
          calls |-> <<[videoID |-> videoID, cipher |-> format.Cipher,
                       url |-> decipher.url, err |-> decipher.err]>>]
    ELSE IF format.URL # ""
    THEN [url |-> format.URL, err |-> NilErr, calls |-> <<>>]
    ELSE [url |-> "", err |-> ErrorOf("ErrCipherNotFound"), calls |-> <<>>]

\* Client.GetStreamURLContext; decipher is what c.decipherURL(ctx, video.ID,
\* cipher) returns when it is called. calls lists the calls made of it.
GetStreamURLContext(videoID, format, decipher) ==
    IF format.URL # ""
    THEN [url |-> format.URL, err |-> NilErr, calls |-> <<>>]
    ELSE IF format.Cipher = ""
    THEN [url |-> "", err |-> ErrCipherNotFound, calls |-> <<>>]
    ELSE [url |-> decipher.url, err |-> decipher.err,
          calls |-> <<[videoID |-> videoID, cipher |-> format.Cipher,
                       url |-> decipher.url, err |-> decipher.err]>>]

(***************************************************************************)
(* Downloader: split mode                                                  *)
(***************************************************************************)

\* a nil *Format
NoFormat == Format(0, "", "", "", 0, 0, 0, 0, "", "", "")

\* FormatList.FindByQuality, from index k on
RECURSIVE FindByQualityFrom(_, _, _)
FindByQualityFrom(fl, quality, k) ==
    IF k > Len(fl) THEN NoFormat
    ELSE IF fl[k].Quality = quality \/ fl[k].QualityLabel = quality THEN fl[k]
    ELSE FindByQualityFrom(fl, quality, k + 1)

FindByQuality(fl, quality) == FindByQualityFrom(fl, quality, 1)

\* FormatList.FindByItag, from index k on
RECURSIVE FindByItagFrom(_, _, _)
FindByItagFrom(fl, itagNo, k) ==
    IF k > Len(fl) THEN NoFormat
    ELSE IF fl[k].ItagNo = itagNo THEN fl[k]
    ELSE FindByItagFrom(fl, itagNo, k + 1)

FindByItag(fl, itagNo) == FindByItagFrom(fl, itagNo, 1)

\* for _, itag := range itags { audioFormat = FindByItag(itag); if found, break }
RECURSIVE FirstOfItags(_, _, _)
FirstOfItags(fl, itags, k) ==
    IF k > Len(itags) THEN NoFormat
    ELSE IF FindByItag(fl, itags[k]) # NoFormat THEN FindByItag(fl, itags[k])
    ELSE FirstOfItags(fl, itags, k + 1)

\* the MPEG-4 audio itags tried from the lowest quality up
Mp4AudioItagsAscending == <<140, 256, 258>>

Mp4AudioItags == <<258, 256, 140>>
WebmAudioItags == <<251, 250, 249>>

\* the formats DownloadWithHighQuality hands to
\* downloadVideoAudioStreamsAndJoin, or the error it returns before that
SelectFormats(v, quality) ==
    LET videoFormat == IF Len(quality) = 0 THEN v.VideoFormats[1]
                       ELSE FindByQuality(v.VideoFormats, quality)
        audioFormat == IF Contains(videoFormat.MimeType, "mp4")
                       THEN FirstOfItags(v.AudioFormats, Mp4AudioItags, 1)
                       ELSE FirstOfItags(v.AudioFormats, WebmAudioItags, 1)
        none == [videoFormat |-> NoFormat, audioFormat |-> NoFormat]
    IN  IF Len(v.VideoFormats) = 0
        THEN [err |-> ErrorOf("no format video for this video"), formats |-> none]
        ELSE IF videoFormat = NoFormat
        THEN [err |-> ErrorOf("no format video for quality found"), formats |-> none]
        ELSE IF ~Contains(videoFormat.MimeType, "mp4")
                /\ ~Contains(videoFormat.MimeType, "webm")
        THEN [err |-> ErrorOf("unhandled mime-type"), formats |-> none]
        ELSE IF audioFormat = NoFormat
        THEN [err |-> ErrorOf("no format audio found"), formats |-> none]
        ELSE [err |-> NilErr,
              formats |-> [videoFormat |-> videoFormat, audioFormat |-> audioFormat]]

\* fileExists with the directory test the wrong way round
fileExistsIsDir(dest) == IF dest = "absent" THEN FALSE ELSE dest = "dir"

\* fileExists(destFile), for a destination os.Stat finds or reports missing
fileExists(dest) == IF dest = "absent" THEN FALSE ELSE dest # "dir"

\* only the call deferred last runs
RunDeferredLastOnly(fs, calls) ==
    IF Len(calls) = 0 THEN fs ELSE [fs EXCEPT ![Head(calls)] = "removed"]

\* the deferred os.Remove calls run at return, the last deferred first
RECURSIVE RunDeferred(_, _)
RunDeferred(fs, calls) ==
    IF Len(calls) = 0 THEN fs
    ELSE RunDeferred([fs EXCEPT ![Head(calls)] = "removed"], Tail(calls))

(***************************************************************************)
(* The comparator applied to pairs of formats                              *)
(***************************************************************************)

SortMimeTypes ==
    {"video/mp4;av01", "video/webm;vp9", "video/mp4;avc1", "video/3gpp",
     "audio/mp4;mp4a", "audio/webm;opus", "audio/webm;vorbis"}

SortDomain ==
    {Format(0, m, "", "", w, fps, br, ch, sr, "", "") :
        m \in SortMimeTypes, w \in {0, 1920}, fps \in {0, 30},
        br \in {128000, 256000}, ch \in {0, 2, 6}, sr \in {"8000", "48000"}}

NoCmp == [i |-> 0, j |-> 0, less |-> FALSE]

NoCall == [op |-> "none", out |-> <<>>]

\* the variables of the list filters, when a specification leaves them alone
IdleFilter == receiver = <<>> /\ tokens = <<>> /\ filtered = NoCall

\* the variables of the comparator, when a specification leaves them alone
IdleSort == sortList = <<>> /\ cmp = NoCmp

\* a decoded playerResponseData value
PlayerResponse(status, reason, embed, seconds, fs, afs) ==
    [PlayabilityStatus |->
        [Status |-> status, Reason |-> reason, PlayableInEmbed |-> embed],
     VideoDetails |->
        [Title |-> "title", ShortDescription |-> "description",
         Author |-> "author", Thumbnails |-> <<"thumb.jpg">>],
     LengthSeconds |-> seconds,
     StreamingData |->
        [Formats |-> fs, AdaptiveFormats |-> afs,
         HlsManifestURL |-> "hls.m3u8", DashManifestURL |-> "dash.mpd"]]

\* a server's answer: the outcome of url.ParseQuery, the status and reason
\* fields, and the player response, which is missing, not valid JSON, or
\* decodes to data
Body(queryOK, status, reason, kind, data) ==
    [queryOK |-> queryOK, status |-> status, reason |-> reason,
     pr |-> [kind |-> kind, data |-> data]]

NoPlayerResponse == PlayerResponse("", "", FALSE, "", <<>>, <<>>)
NoBody == Body(FALSE, "", "", "missing", NoPlayerResponse)

\* the variables of the parser, when a specification leaves them alone
IdleParse == body = NoBody /\ video = NewVideo("") /\ perr = NilErr /\ ppc = "new"

\* the arguments of DownloadWithHighQuality and the Downloader's OutputDir
Call(v, quality, outputDir) == [video |-> v, quality |-> quality, outputDir |-> outputDir]

\* the files the call touches: the output directory ("exists", "absent"),
\* the destination (what os.Stat finds: "absent", "file", "dir", or
\* "statError" for an error other than not-exist; dest0 keeps what it was
\* when the call began), the two temporary files ("none", "exists",
\* "removed") and the number of times the muxer wrote the destination
Files(dir, dest) ==
    [dir |-> dir, dest |-> dest, dest0 |-> dest, tmpVideo |-> "none",
     tmpAudio |-> "none", destWrites |-> 0]

NoPick == [videoFormat |-> NoFormat, audioFormat |-> NoFormat]

\* the variables of the downloader, when a specification leaves them alone
IdleDownload ==
    /\ call = Call(NewVideo(""), "", "")
    /\ fsys = Files("exists", "absent")
    /\ pc = "done"
    /\ stream = ""
    /\ picked = NoPick
    /\ result = NilErr
    /\ cancelled = FALSE
    /\ deferred = <<>>
    /\ log = <<>>
    /\ requests = <<>>
    /\ resolved = <<>>

InitSort ==
    /\ sortList \in {<<a, b>> : a \in SortDomain, b \in SortDomain}
    /\ cmp = NoCmp
    /\ IdleFilter
    /\ IdleParse
    /\ IdleDownload

\* one call of the comparator, as sort.SliceStable makes it
Compare(i, j) ==
    /\ cmp = NoCmp
    /\ cmp' = [i |-> i, j |-> j, less |-> SortFormat(i, j, sortList)]
    /\ UNCHANGED <<sortList, filterVars, parseVars, dlVars>>

NextSort == \E i \in 1..Len(sortList), j \in 1..Len(sortList) : Compare(i, j)

SpecSort == InitSort /\ [][NextSort]_vars

\* the format compared first and the format compared second
CmpA == sortList[cmp.i]
CmpB == sortList[cmp.j]

\* codec preference of the video branch, higher is better: av01, vp9, avc1,
\* and below them every other MIME type
PreferredVideoRank(f) ==
    IF Contains(f.MimeType, "av01") THEN 3
    ELSE IF Contains(f.MimeType, "vp9") THEN 2
    ELSE IF Contains(f.MimeType, "avc1") THEN 1
    ELSE 0

\* C1: for two formats of equal width and equal frame rate compared in the
\* video branch, the one with the better codec (av01 > vp9 > avc1 >
\* unrecognized) is ordered first, and among equal codec rank the one with
\* the higher bitrate is ordered first.
C1_VideoCodecRankOrder ==
    (cmp.i # 0 /\ CmpA.Width = CmpB.Width /\ CmpA.FPS = CmpB.FPS
        /\ ~AudioBranch(CmpA, CmpB))
    => cmp.less = (IF PreferredVideoRank(CmpA) # PreferredVideoRank(CmpB)
                   THEN PreferredVideoRank(CmpA) > PreferredVideoRank(CmpB)
                   ELSE CmpA.Bitrate > CmpB.Bitrate)

\* codec preference of the audio branch, higher is better: mp4, opus, and
\* below them every other MIME type
PreferredAudioRank(f) ==
    IF Contains(f.MimeType, "mp4") THEN 2
    ELSE IF Contains(f.MimeType, "opus") THEN 1
    ELSE 0

\* the audio sample rate as a number
SampleRateValue(f) == AtoiSigned(f.AudioSampleRate).value

\* C2: for two formats of equal width, frame rate zero and audio channels on
\* both, mp4 is ordered before opus and an unrecognized codec last; among
\* equal codec rank the order is more channels, then higher bitrate, then
\* numerically higher sample rate.
C2_AudioCodecRankOrder ==
    (cmp.i # 0 /\ CmpA.Width = CmpB.Width /\ CmpA.FPS = 0 /\ CmpB.FPS = 0
        /\ CmpA.AudioChannels > 0 /\ CmpB.AudioChannels > 0)
    => cmp.less =
        (IF PreferredAudioRank(CmpA) # PreferredAudioRank(CmpB)
         THEN PreferredAudioRank(CmpA) > PreferredAudioRank(CmpB)
         ELSE IF CmpA.AudioChannels # CmpB.AudioChannels
         THEN CmpA.AudioChannels > CmpB.AudioChannels
         ELSE IF CmpA.Bitrate # CmpB.Bitrate
         THEN CmpA.Bitrate > CmpB.Bitrate
         ELSE SampleRateValue(CmpA) > SampleRateValue(CmpB))

MaxListLen == 2
MaxTokens == 2

\* sequences over S of length at most n
SeqsUpTo(S, n) == UNION {[1..k -> S] : k \in 0..n}

FilterFormats ==
    {Format(itag, ql[3], ql[1], ql[2], 0, 0, 0, 0, "", "", "") :
        itag \in {0, 18, 22},
        ql \in {<<"medium", "360p", "video/mp4;avc1">>,
                <<"hd720", "720p", "video/webm;vp9">>}}

FilterTokens == {"18", "22", "hd", "720", "mp4", "vp9", ""}

InitFilter ==
    /\ receiver \in SeqsUpTo(FilterFormats, MaxListLen)
    /\ tokens \in SeqsUpTo(FilterTokens, MaxTokens)
    /\ filtered = NoCall
    /\ IdleSort
    /\ IdleParse
    /\ IdleDownload

CallFilterQuality ==
    /\ filtered = NoCall
    /\ filtered' = [op |-> "FilterQuality", out |-> FilterQualityList(receiver, tokens)]
    /\ UNCHANGED <<receiver, tokens, sortVars, parseVars, dlVars>>

CallFilterCodec ==
    /\ filtered = NoCall
    /\ filtered' = [op |-> "FilterCodec", out |-> FilterCodecList(receiver, tokens)]
    /\ UNCHANGED <<receiver, tokens, sortVars, parseVars, dlVars>>

NextFilter == CallFilterQuality \/ CallFilterCodec

SpecFilter == InitFilter /\ [][NextFilter]_vars

\* a quality token that is a number equal to the itag, or a substring of the
\* quality enum or of the quality label
TokenMatches(f, q) ==
    \/ ~AtoiSigned(q).err /\ AtoiSigned(q).value = f.ItagNo
    \/ Contains(f.Quality, q)
    \/ Contains(f.QualityLabel, q)

SomeTokenMatches(f) == \E k \in 1..Len(tokens) : TokenMatches(f, tokens[k])

\* C3: FilterQuality returns exactly the formats that some token matches by
\* itag equality or as a substring of quality or label, in input order.
C3_FilterQualityKeepsMatches ==
    filtered.op = "FilterQuality" => filtered.out = SelectSeq(receiver, SomeTokenMatches)

(***************************************************************************)
(* The parser and the Video filters                                        *)
(***************************************************************************)

MaxAdaptive == 2

\* streamingData.formats: streams with video and audio
CombinedFormats ==
    {Format(18, "video/mp4;avc1,mp4a", "medium", "360p", 640, 30, 500000, 2,
            "44100", "https://host/18", "")}

\* streamingData.adaptiveFormats: video-only and audio-only streams, and one
\* whose MIME type is neither
AdaptiveFormats ==
    {Format(137, "video/mp4;avc1", "hd1080", "1080p", 1920, 30, 4000000, 0, "",
            "https://host/137", ""),
     Format(248, "video/webm;vp9", "hd1080", "1080p", 1920, 30, 3000000, 0, "",
            "", "s=sig&url=host/248"),
     Format(140, "audio/mp4;mp4a", "tiny", "", 0, 0, 128000, 2, "44100",
            "https://host/140", ""),
     Format(251, "audio/webm;opus", "tiny", "", 0, 0, 160000, 2, "48000",
            "", "s=sig&url=host/251"),
     Format(0, "text/vtt", "", "", 0, 0, 0, 0, "", "https://host/cc", "")}

PlayerResponses ==
    {PlayerResponse(st, rs, em, sec, fs, afs) :
        st \in {"OK", "UNPLAYABLE", "LOGIN_REQUIRED"},
        rs \in {"", "Video unavailable"},
        em \in BOOLEAN,
        sec \in {"", "63"},
        fs \in SeqsUpTo(CombinedFormats, 1),
        afs \in SeqsUpTo(AdaptiveFormats, MaxAdaptive)}

InfoBodies ==
    {Body(FALSE, "", "", "missing", NoPlayerResponse),
     Body(TRUE, "fail", "Invalid parameters.", "missing", NoPlayerResponse),
     Body(TRUE, "ok", "", "missing", NoPlayerResponse),
     Body(TRUE, "ok", "", "invalid", NoPlayerResponse)}
    \cup {Body(TRUE, "ok", "", "json", d) : d \in PlayerResponses}

PageBodies ==
    {Body(TRUE, "", "", "missing", NoPlayerResponse),
     Body(TRUE, "", "", "invalid", NoPlayerResponse)}
    \cup {Body(TRUE, "", "", "json", d) : d \in PlayerResponses}

QualityArgs == {<<"hd1080">>, <<"140">>, <<"tiny", "360p">>}
CodecArgs == {<<"mp4">>, <<"webm", "vp9">>}

InitParse ==
    /\ body = NoBody
    /\ video = NewVideo("dQw4w9WgXcQ")
    /\ perr = NilErr
    /\ ppc = "new"
    /\ IdleSort
    /\ IdleFilter
    /\ IdleDownload

\* GetVideoContext: a new Video parses the get_video_info answer
ParseInfo(b) ==
    /\ ppc = "new"
    /\ body' = b
    /\ video' = parseVideoInfo(video, b).v
    /\ perr' = parseVideoInfo(video, b).err
    /\ ppc' = "info"
    /\ UNCHANGED <<sortVars, filterVars, dlVars>>

\* a new Video parses the watch page
ParsePage(b) ==
    /\ ppc = "new"
    /\ body' = b
    /\ video' = parseVideoPage(video, b).v
    /\ perr' = parseVideoPage(video, b).err
    /\ ppc' = "page"
    /\ UNCHANGED <<sortVars, filterVars, dlVars>>

\* the caller filters a Video it got without error
ApplyFilterCodec(codec) ==
    /\ ppc # "new" /\ perr = NilErr
    /\ video' = VideoFilterCodec(video, codec)
    /\ UNCHANGED <<body, perr, ppc, sortVars, filterVars, dlVars>>

ApplyFilterQuality(quality) ==
    /\ ppc # "new" /\ perr = NilErr
    /\ video' = VideoFilterQuality(video, quality)
    /\ UNCHANGED <<body, perr, ppc, sortVars, filterVars, dlVars>>

NextParse ==
    \/ \E b \in InfoBodies : ParseInfo(b)
    \/ \E b \in PageBodies : ParsePage(b)
    \/ \E codec \in CodecArgs : ApplyFilterCodec(codec)
    \/ \E quality \in QualityArgs : ApplyFilterQuality(quality)

SpecParse == InitParse /\ [][NextParse]_vars

\* the player response was decoded and its playability was looked at
PlayabilityChecked ==
    /\ ppc # "new"
    /\ body.pr.kind = "json"
    /\ ppc = "info" => (body.queryOK /\ body.status = "ok")

Playability == body.pr.data.PlayabilityStatus

\* C10: a player response that is not OK yields the not-embeddable error when
\* it is not playable in embed and came from the non-page endpoint, and the
\* playability error with its status and reason otherwise; the Video keeps
\* only its ID.
C10_NotPlayableErrors ==
    (PlayabilityChecked /\ Playability.Status # "OK")
    => /\ perr = IF ppc = "info" /\ ~Playability.PlayableInEmbed
                 THEN ErrNotPlayableInEmbed
                 ELSE [kind |-> "ErrPlayabiltyStatus",
                       status |-> Playability.Status,
                       reason |-> Playability.Reason]
       /\ video = NewVideo(video.ID)

\* witness of C10: a non-OK answer that is not playable in embed was parsed
\* from the non-page endpoint, stream descriptors and all, and the
\* not-embeddable error came back with an empty Video
C10_Witness ==
    /\ PlayabilityChecked
    /\ ppc = "info"
    /\ Playability.Status = "UNPLAYABLE"
    /\ ~Playability.PlayableInEmbed
    /\ Len(body.pr.data.StreamingData.AdaptiveFormats) > 0
    /\ perr = ErrNotPlayableInEmbed
    /\ video.Formats = <<>>

(***************************************************************************)
(* Downloader.DownloadWithHighQuality                                      *)
(***************************************************************************)

MaxAudioFormats == 2

Video137 ==
    Format(137, "video/mp4;avc1", "hd1080", "1080p", 1920, 30, 4000000, 0, "",
           "https://host/137", "")
Video248 ==
    Format(248, "video/webm;vp9", "hd1080", "1080p", 1920, 30, 3000000, 0, "",
           "", "s=sig&url=host/248")
Video36 ==
    Format(36, "video/3gpp", "small", "240p", 320, 30, 200000, 0, "",
           "https://host/36", "")

\* v.VideoFormats: none, one, or two with the requested quality on the
\* first or on the second only
DownloadVideoFormats ==
    {<<>>, <<Video137>>, <<Video248>>, <<Video36>>, <<Video248, Video137>>,
     <<Video36, Video137>>}

\* v.AudioFormats: the six itags split mode looks for, with a direct URL, a
\* cipher payload, both or neither
DownloadAudioFormats ==
    {Format(140, "audio/mp4;mp4a", "tiny", "", 0, 0, 128000, 2, "44100",
            "https://host/140", "s=sig&url=host/140"),
     Format(256, "audio/mp4;mp4a", "tiny", "", 0, 0, 192000, 6, "48000",
            "", "s=sig&url=host/256"),
     Format(258, "audio/mp4;mp4a", "tiny", "", 0, 0, 384000, 6, "48000",
            "https://host/258", ""),
     Format(251, "audio/webm;opus", "tiny", "", 0, 0, 160000, 2, "48000",
            "https://host/251", ""),
     Format(250, "audio/webm;opus", "tiny", "", 0, 0, 70000, 2, "48000",
            "", ""),
     Format(249, "audio/webm;opus", "tiny", "", 0, 0, 50000, 2, "48000",
            "", "s=sig&url=host/249")}

DownloadVideos ==
    {[NewVideo("dQw4w9WgXcQ") EXCEPT !.Title = "title", !.VideoFormats = vfs,
                                     !.AudioFormats = afs] :
        vfs \in DownloadVideoFormats,
        afs \in SeqsUpTo(DownloadAudioFormats, MaxAudioFormats)}

\* what c.decipherURL returns
DecipherOutcomes ==
    {[url |-> "https://host/deciphered", err |-> NilErr],
     [url |-> "", err |-> ErrorOf("decipher failed")]}

ErrContext == ErrorOf("context canceled")

InitDownload ==
    /\ call \in {Call(v, q, d) : v \in DownloadVideos, q \in {"", "hd1080"},
                                 d \in {"", "out"}}
    /\ fsys \in {Files(dir, dest) :
                    dir \in {"exists", "absent"},
                    dest \in {"absent", "file", "dir", "statError"}}
    \* without OutputDir the destination is in the working directory, which
    \* exists; an OutputDir is one that does not exist yet
    /\ call.outputDir = "" <=> fsys.dir = "exists"
    /\ fsys.dir = "absent" => fsys.dest = "absent"
    /\ pc = "start"
    /\ stream = ""
    /\ picked = NoPick
    /\ result = NilErr
    /\ cancelled = FALSE
    /\ deferred = <<>>
    /\ log = <<>>
    /\ requests = <<>>
    /\ resolved = <<>>
    /\ IdleSort
    /\ IdleFilter
    /\ IdleParse

\* return err: the deferred calls, if any, run before the caller goes on
Return(err) ==
    /\ result' = err
    /\ pc' = IF deferred = <<>> THEN "done" ELSE "cleanup"

\* a state of the split-mode state machine is entered, and ends with err
EnterEnding(state, err) ==
    Append(log, [state |-> state, ctxDone |-> cancelled, err |-> err])

\* a state of the split-mode state machine is entered
Enter(state) == EnterEnding(state, NilErr)

\* the state entered last fails with err
Failed(err) == [log EXCEPT ![Len(log)].err = err]

idle == <<sortVars, filterVars, parseVars>>

\* DownloadWithHighQuality up to its call of downloadVideoAudioStreamsAndJoin
SelectStep ==
    /\ pc = "start"
    /\ LET sel == SelectFormats(call.video, call.quality)
       IN  IF sel.err # NilErr
           THEN Return(sel.err) /\ UNCHANGED picked
           ELSE pc' = "join" /\ picked' = sel.formats /\ UNCHANGED result
    /\ UNCHANGED <<call, fsys, stream, cancelled, deferred, log, requests,
                   resolved, idle>>

\* getOutputFile and the fileExists test; mkdirOK is the outcome of
\* os.MkdirAll for a directory that does not exist yet
JoinStep(mkdirOK) ==
    /\ pc = "join"
    /\ LET mkdir == call.outputDir # "" /\ fsys.dir = "absent"
       IN  IF mkdir /\ ~mkdirOK
           THEN Return(ErrorOf("mkdir failed")) /\ UNCHANGED fsys
           ELSE /\ fsys' = [fsys EXCEPT !.dir = "exists"]
                /\ IF fsys.dest = "statError"
                   THEN Return(ErrorOf("panic: nil pointer dereference"))
                   ELSE IF fileExists(fsys.dest)
                   THEN Return(ErrorOf("SKIP: file exists"))
                   ELSE pc' = "tempVideo" /\ UNCHANGED result
    /\ UNCHANGED <<call, stream, picked, cancelled, deferred, log, requests,
                   resolved, idle>>

\* ioutil.TempFile for the video and defer os.Remove
TempVideoStep(ok) ==
    /\ pc = "tempVideo"
    /\ IF ok
       THEN /\ fsys' = [fsys EXCEPT !.tmpVideo = "exists"]
            /\ deferred' = <<"tmpVideo">> \o deferred
            /\ pc' = "tempAudio"
            /\ UNCHANGED result
       ELSE Return(ErrorOf("TempFile failed")) /\ UNCHANGED <<fsys, deferred>>
    /\ UNCHANGED <<call, stream, picked, cancelled, log, requests, resolved, idle>>

\* ioutil.TempFile for the audio and defer os.Remove
TempAudioStep(ok) ==
    /\ pc = "tempAudio"
    /\ IF ok
       THEN /\ fsys' = [fsys EXCEPT !.tmpAudio = "exists"]
            /\ deferred' = <<"tmpAudio">> \o deferred
            /\ pc' = "resolve"
            /\ stream' = "video"
            /\ UNCHANGED result
       ELSE Return(ErrorOf("TempFile failed")) /\ UNCHANGED <<fsys, deferred, stream>>
    /\ UNCHANGED <<call, picked, cancelled, log, requests, resolved, idle>>

WorkerFormat == IF stream = "video" THEN picked.videoFormat ELSE picked.audioFormat
ResolveState == IF stream = "video" THEN "ResolveVideo" ELSE "ResolveAudio"
DownloadState == IF stream = "video" THEN "DownloadVideo" ELSE "DownloadAudio"

\* videoDLWorker: GetStreamContext resolves the stream's URL
ResolveStep(decipher) ==
    /\ pc = "resolve"
    /\ LET r == GetStreamURLContext(call.video.ID, WorkerFormat, decipher)
       IN  /\ resolved' = Append(resolved, [format |-> WorkerFormat, url |-> r.url,
                                            err |-> r.err, calls |-> r.calls])
           /\ IF r.err # NilErr
              THEN Return(r.err) /\ log' = EnterEnding(ResolveState, r.err)
              ELSE pc' = "get" /\ UNCHANGED result /\ log' = Enter(ResolveState)
    /\ UNCHANGED <<call, fsys, stream, picked, cancelled, deferred, requests, idle>>
\* httpGet: the request is built and client.Do sends it, unless ctx is done
GetStep(requestOK) ==
    /\ pc = "get"
    /\ LET url == resolved[Len(resolved)].url
       IN  IF ~requestOK
           THEN /\ Return(ErrorOf("invalid request"))
                /\ log' = EnterEnding(DownloadState, ErrorOf("invalid request"))
                /\ UNCHANGED requests
           ELSE IF cancelled
           THEN /\ Return(ErrContext)
                /\ log' = EnterEnding(DownloadState, ErrContext)
                /\ UNCHANGED requests
           ELSE /\ requests' = Append(requests, [url |-> url, ctxDone |-> cancelled])
                /\ log' = Enter(DownloadState)
                /\ pc' = "response"
                /\ UNCHANGED result
    /\ UNCHANGED <<call, fsys, stream, picked, cancelled, deferred, resolved, idle>>

\* httpGet: client.Do returns; a request in flight when ctx is done fails
ResponseStep(outcome) ==
    /\ pc = "response"
    /\ LET err == IF cancelled THEN ErrContext
                  ELSE IF outcome = "error" THEN ErrorOf("transport error")
                  ELSE IF outcome # "200" THEN ErrorOf("ErrUnexpectedStatusCode")
                  ELSE NilErr
       IN  IF err # NilErr
           THEN Return(err) /\ log' = Failed(err)
           ELSE pc' = "copy" /\ UNCHANGED <<result, log>>
    /\ UNCHANGED <<call, fsys, stream, picked, cancelled, deferred, requests,
                   resolved, idle>>

\* CopyStep with the worker's error dropped by its caller
CopyStepErrorDropped(copyOK) ==
    /\ pc = "copy"
    /\ LET err == IF cancelled THEN ErrContext
                  ELSE IF ~copyOK THEN ErrorOf("copy failed")
                  ELSE NilErr
       IN  log' = IF err # NilErr THEN Failed(err) ELSE log
    /\ IF stream = "video"
       THEN stream' = "audio" /\ pc' = "resolve"
       ELSE stream' = "" /\ pc' = "mux"
    /\ UNCHANGED <<call, fsys, picked, result, cancelled, deferred, requests,
                   resolved, idle>>

\* videoDLWorker: io.Copy of the body into the temporary file; reading the
\* body fails once ctx is done
CopyStep(copyOK) ==
    /\ pc = "copy"
    /\ LET err == IF cancelled THEN ErrContext
                  ELSE IF ~copyOK THEN ErrorOf("copy failed")
                  ELSE NilErr
       IN  IF err # NilErr
           THEN Return(err) /\ log' = Failed(err) /\ UNCHANGED stream
           ELSE /\ UNCHANGED <<result, log>>
                /\ IF stream = "video"
                   THEN stream' = "audio" /\ pc' = "resolve"
                   ELSE stream' = "" /\ pc' = "mux"
    /\ UNCHANGED <<call, fsys, picked, cancelled, deferred, requests, resolved, idle>>

\* exec.Command("ffmpeg", ...).Run(): the command is not tied to ctx
MuxStep(muxOK) ==
    /\ pc = "mux"
    /\ IF muxOK /\ fsys.dest # "dir"
       THEN /\ fsys' = [fsys EXCEPT !.dest = "file", !.destWrites = @ + 1]
            /\ Return(NilErr)
            /\ log' = Enter("Mux")
       ELSE /\ Return(ErrorOf("ffmpeg failed"))
            /\ log' = EnterEnding("Mux", ErrorOf("ffmpeg failed"))
            /\ UNCHANGED fsys
    /\ UNCHANGED <<call, stream, picked, cancelled, deferred, requests, resolved, idle>>

\* the deferred os.Remove calls run as downloadVideoAudioStreamsAndJoin returns
CleanupStep ==
    /\ pc = "cleanup"
    /\ fsys' = RunDeferred(fsys, deferred)
    /\ deferred' = <<>>
    /\ log' = Enter("Cleanup")
    /\ pc' = "done"
    /\ UNCHANGED <<call, stream, picked, result, cancelled, requests, resolved, idle>>

\* ctx is cancelled or times out
Cancel ==
    /\ pc # "done"
    /\ ~cancelled
    /\ cancelled' = TRUE
    /\ UNCHANGED <<call, fsys, pc, stream, picked, result, deferred, log, requests,
                   resolved, idle>>

NextDownload ==
    \/ SelectStep
    \/ \E mkdirOK \in BOOLEAN : JoinStep(mkdirOK)
    \/ \E ok \in BOOLEAN : TempVideoStep(ok)
    \/ \E ok \in BOOLEAN : TempAudioStep(ok)
    \/ \E decipher \in DecipherOutcomes : ResolveStep(decipher)
    \/ \E requestOK \in BOOLEAN : GetStep(requestOK)
    \/ \E outcome \in {"200", "404", "error"} : ResponseStep(outcome)
    \/ \E copyOK \in BOOLEAN : CopyStep(copyOK)
    \/ \E muxOK \in BOOLEAN : MuxStep(muxOK)
    \/ CleanupStep
    \/ Cancel

SpecDownload == InitDownload /\ [][NextDownload]_vars

ErrSkip == ErrorOf("SKIP: file exists")

\* the call has touched nothing: the destination is as it was, there is no
\* temporary file, no URL was resolved, no request was sent, no state of the
\* state machine (the muxer's among them) was entered
NothingStarted ==
    /\ fsys.dest = fsys.dest0
    /\ fsys.destWrites = 0
    /\ fsys.tmpVideo = "none" /\ fsys.tmpAudio = "none"
    /\ resolved = <<>>
    /\ requests = <<>>
    /\ log = <<>>

\* C4 as stated: a split-mode download whose destination file exists returns
\* the skip outcome, and has touched nothing.
C4_ExistingDestinationSkips ==
    fsys.dest0 = "file"
    => /\ NothingStarted
       /\ pc = "done" => result = ErrSkip

\* C4, amended: a split-mode download whose destination file exists touches
\* nothing; it returns the skip outcome once the two formats are selected,
\* and the selection's error when the selection fails.
C4_ExistingDestinationUntouched ==
    fsys.dest0 = "file"
    => /\ NothingStarted
       /\ (pc = "done" /\ picked # NoPick) => result = ErrSkip
       /\ (pc = "done" /\ picked = NoPick)
            => result = SelectFormats(call.video, call.quality).err /\ result # NilErr

\* witness of C4: formats were selected, the destination existed, and the
\* call returned the skip outcome
C4_Witness ==
    /\ fsys.dest0 = "file"
    /\ picked # NoPick
    /\ pc = "done"
    /\ result = ErrSkip

\* the states of the split-mode state machine in the order the claim gives
ClaimedRank(state) ==
    CASE state = "ResolveVideo" -> 1 [] state = "ResolveAudio" -> 2
      [] state = "DownloadVideo" -> 3 [] state = "DownloadAudio" -> 4
      [] state = "Mux" -> 5 [] state = "Cleanup" -> 6

\* each stream's URL resolved right before its download
InterleavedRank(state) ==
    CASE state = "ResolveVideo" -> 1 [] state = "DownloadVideo" -> 2
      [] state = "ResolveAudio" -> 3 [] state = "DownloadAudio" -> 4
      [] state = "Mux" -> 5 [] state = "Cleanup" -> 6

EnteredInOrder(Rank(_)) ==
    \A k \in 1..(Len(log) - 1) : Rank(log[k].state) < Rank(log[k + 1].state)

\* a state that failed is followed by Cleanup and nothing else
FailureAborts ==
    \A k \in 1..(Len(log) - 1) :
        log[k].err # NilErr => (log[k + 1].state = "Cleanup" /\ k + 1 = Len(log))

Succeeded(state, before) ==
    \E k \in 1..(before - 1) : log[k].state = state /\ log[k].err = NilErr

MuxAfterBothDownloads ==
    \A k \in 1..Len(log) :
        log[k].state = "Mux"
        => Succeeded("DownloadVideo", k) /\ Succeeded("DownloadAudio", k)

AudioAfterVideo ==
    \A k \in 1..Len(log) :
        log[k].state \in {"ResolveAudio", "DownloadAudio"}
        => Succeeded("ResolveVideo", k) /\ Succeeded("DownloadVideo", k)

FailingStateErrorReturned ==
    pc = "done" => \A k \in 1..Len(log) : log[k].err # NilErr => result = log[k].err

\* C5 as stated: the states are entered only in the order ResolveVideo,
\* ResolveAudio, DownloadVideo, DownloadAudio, Mux, Cleanup; a failed state
\* aborts the remaining ones; the muxer runs only after both downloads
\* succeeded; the error returned is the failing state's.
C5_ClaimedStateOrder ==
    /\ EnteredInOrder(ClaimedRank)
    /\ FailureAborts
    /\ AudioAfterVideo
    /\ MuxAfterBothDownloads
    /\ FailingStateErrorReturned

\* C5, amended: the same with the order ResolveVideo, DownloadVideo,
\* ResolveAudio, DownloadAudio, Mux, Cleanup.
C5_InterleavedStateOrder ==
    /\ EnteredInOrder(InterleavedRank)
    /\ FailureAborts
    /\ AudioAfterVideo
    /\ MuxAfterBothDownloads
    /\ FailingStateErrorReturned

\* witness of C5: the video download failed, the call returned its error, and
\* only Cleanup followed
C5_Witness ==
    /\ pc = "done"
    /\ Len(log) = 3
    /\ log[1].state = "ResolveVideo" /\ log[1].err = NilErr
    /\ log[2].state = "DownloadVideo"
    /\ log[2].err = ErrorOf("ErrUnexpectedStatusCode")
    /\ log[3].state = "Cleanup"
    /\ result = ErrorOf("ErrUnexpectedStatusCode")

\* C6: when the split-mode download has returned, no temporary file it
\* created is left.
C6_TemporaryFilesRemoved ==
    pc = "done" => fsys.tmpVideo # "exists" /\ fsys.tmpAudio # "exists"

\* witness of C6: the second temporary file could not be created, and the
\* first is removed
C6_Witness ==
    /\ pc = "done"
    /\ result = ErrorOf("TempFile failed")
    /\ fsys.tmpVideo = "removed"
    /\ fsys.tmpAudio = "none"

\* C7: once ctx is done no request is sent and the muxer is not invoked, and
\* the temporary files are still removed.
C7_CancelSkipsLaterStates ==
    /\ \A k \in 1..Len(requests) : ~requests[k].ctxDone
    /\ \A k \in 1..Len(log) : log[k].state = "Mux" => ~log[k].ctxDone
    /\ C6_TemporaryFilesRemoved

Least(S) == CHOOSE m \in S : \A x \in S : m <= x

\* the indices of the video formats the quality argument asks for
RequestedVideos ==
    {k \in 1..Len(call.video.VideoFormats) :
        \/ call.quality = ""
        \/ call.video.VideoFormats[k].Quality = call.quality
        \/ call.video.VideoFormats[k].QualityLabel = call.quality}

RequestedVideo == call.video.VideoFormats[Least(RequestedVideos)]

\* the audio itags in order of preference for the container of a video format
PreferenceList(videoFormat) ==
    IF Contains(videoFormat.MimeType, "mp4") THEN <<258, 256, 140>>
    ELSE IF Contains(videoFormat.MimeType, "webm") THEN <<251, 250, 249>>
    ELSE <<>>

\* the positions of a preference list whose itag is in the audio-only view
PresentAt(itags) ==
    {k \in 1..Len(itags) :
        \E a \in 1..Len(call.video.AudioFormats) :
            call.video.AudioFormats[a].ItagNo = itags[k]}

\* C8: the companion audio format is the one with the first itag of the
\* container's preference list (258, 256, 140 for MPEG-4; 251, 250, 249 for
\* WebM) found in the audio-only view; another container fails as
\* unsupported and a view with none of the itags fails with the
\* no-audio-format error, both before anything is started.
C8_AudioByPreferenceList ==
    (pc # "start" /\ RequestedVideos # {})
    => LET itags == PreferenceList(RequestedVideo)
       IN  IF itags = <<>>
           THEN pc = "done" /\ result = ErrorOf("unhandled mime-type")
                /\ NothingStarted
           ELSE IF PresentAt(itags) = {}
           THEN pc = "done" /\ result = ErrorOf("no format audio found")
                /\ NothingStarted
           ELSE /\ picked.videoFormat = RequestedVideo
                /\ picked.audioFormat.ItagNo = itags[Least(PresentAt(itags))]
                /\ \E a \in 1..Len(call.video.AudioFormats) :
                        call.video.AudioFormats[a] = picked.audioFormat

\* witness of C8: an MPEG-4 video format and the audio itags 140 and 256, of
\* which 256 was picked
C8_Witness ==
    /\ pc # "start"
    /\ Contains(picked.videoFormat.MimeType, "mp4")
    /\ Len(call.video.AudioFormats) = 2
    /\ call.video.AudioFormats[1].ItagNo = 140
    /\ call.video.AudioFormats[2].ItagNo = 256
    /\ picked.audioFormat.ItagNo = 256

\* C9: a format with a URL resolves to that URL without a call of the
\* decipherer; a format with neither URL nor cipher payload fails with the
\* cipher-not-found error without a call of the decipherer; a format with a
\* cipher payload only resolves to what the one call of the decipherer with
\* (videoID, cipher) returned, URL or error.
C9_StreamURLResolution ==
    \A k \in 1..Len(resolved) :
        LET r == resolved[k]
        IN  IF r.format.URL # ""
            THEN r.url = r.format.URL /\ r.err = NilErr /\ r.calls = <<>>
            ELSE IF r.format.Cipher = ""
            THEN r.url = "" /\ r.err = ErrorOf("ErrCipherNotFound") /\ r.calls = <<>>
            ELSE /\ Len(r.calls) = 1
                 /\ r.calls[1].videoID = call.video.ID
                 /\ r.calls[1].cipher = r.format.Cipher
                 /\ r.url = r.calls[1].url
                 /\ r.err = r.calls[1].err

\* witness of C9: the video format, which has a URL, resolved to it without
\* the decipherer, and the audio format, which has a cipher payload only, to
\* the decipherer's error, which the call returned
C9_Witness ==
    /\ Len(resolved) = 2
    /\ resolved[1].format.URL # "" /\ resolved[1].calls = <<>>
    /\ resolved[2].format.URL = "" /\ resolved[2].format.Cipher # ""
    /\ resolved[2].err = ErrorOf("decipher failed")
    /\ result = ErrorOf("decipher failed")

(***************************************************************************)
(* The views after a parse                                                 *)
(***************************************************************************)

\* the two stream-descriptor arrays of a body, one after the other
Concatenation(b) ==
    b.pr.data.StreamingData.Formats \o b.pr.data.StreamingData.AdaptiveFormats

\* how many entries of fl are f
Count(f, fl) == Cardinality({k \in DOMAIN fl : fl[k] = f})

Entries(fl) == {fl[k] : k \in DOMAIN fl}

SameEntries(fl, gl) ==
    \A f \in Entries(fl) \cup Entries(gl) : Count(f, fl) = Count(f, gl)

\* the parse of body b from source p got as far as the stream descriptors
Extracted(b, p) ==
    /\ b.pr.kind = "json"
    /\ p = "info" => (b.queryOK /\ b.status = "ok")
    /\ b.pr.data.PlayabilityStatus.Status = "OK"

\* every entry of Formats is in the one view of its content type, as often
\* as it is in Formats, and in no other view
ViewsPartition(v) ==
    /\ \A f \in Entries(v.Formats) :
          /\ Count(f, v.VideoFormats) =
                IF IsVideoOnly(f) THEN Count(f, v.Formats) ELSE 0
          /\ Count(f, v.VideoAudioFormats) =
                IF IsVideoAudio(f) THEN Count(f, v.Formats) ELSE 0
          /\ Count(f, v.AudioFormats) =
                IF HasPrefix(f.MimeType, "audio") THEN Count(f, v.Formats) ELSE 0
    /\ Entries(v.VideoFormats) \cup Entries(v.VideoAudioFormats)
          \cup Entries(v.AudioFormats) \subseteq Entries(v.Formats)

\* a step that parses a body
Parses == ppc = "new" /\ ppc' # "new"

EmptyFails(b, p, e) ==
    (Extracted(b, p) /\ Concatenation(b) = <<>>) => e = ErrorOf("no formats found")

\* C11 as stated: after a successful parse Formats is non-empty and is the
\* concatenation of the two stream-descriptor arrays, the typed views
\* partition it by content type, and an empty concatenation fails the parse
\* with the no-formats error.
C11_FormatsIsConcatenation ==
    [][Parses =>
        /\ perr' = NilErr =>
              /\ video'.Formats # <<>>
              /\ video'.Formats = Concatenation(body')
              /\ ViewsPartition(video')
        /\ EmptyFails(body', ppc', perr')]_vars

\* C11 amended: after a successful parse Formats is non-empty and holds
\* exactly the entries of the two stream-descriptor arrays, each as often as
\* the arrays hold it, in the order the sort leaves them; the typed views
\* partition it by content type, and an empty concatenation fails the parse
\* with the no-formats error.
C11_ViewsPartitionFormats ==
    [][Parses =>
        /\ perr' = NilErr =>
              /\ video'.Formats # <<>>
              /\ SameEntries(video'.Formats, Concatenation(body'))
              /\ video'.Formats = SliceStable(Concatenation(body'))
              /\ ViewsPartition(video')
        /\ EmptyFails(body', ppc', perr')]_vars

\* witness of C11: a body with a combined stream, an audio stream and a
\* stream of neither content type was parsed without error, and Formats
\* holds the three in another order than the arrays did
C11_Witness ==
    /\ ppc # "new"
    /\ perr = NilErr
    /\ Extracted(body, ppc)
    /\ Len(body.pr.data.StreamingData.Formats) = 1
    /\ \E k \in DOMAIN Concatenation(body) :
          HasPrefix(Concatenation(body)[k].MimeType, "audio")
    /\ \E k \in DOMAIN Concatenation(body) :
          Concatenation(body)[k].MimeType = "text/vtt"
    /\ SameEntries(video.Formats, Concatenation(body))
    /\ video.Formats # Concatenation(body)
    /\ Len(video.AudioFormats) = 1
    /\ Len(video.VideoAudioFormats) = 1
    /\ video.VideoFormats = <<>>

(***************************************************************************)
(* FilterCodec on a list                                                   *)
(***************************************************************************)

\* the MIME type of f contains every string of the codec list
EveryCodecContained(f) ==
    \A k \in 1..Len(tokens) : Contains(f.MimeType, tokens[k])

\* a step that calls FilterCodec
CallsFilterCodec == filtered = NoCall /\ filtered'.op = "FilterCodec"

\* C12: FilterCodec with an empty codec list returns a list with the same
\* entries in the same order; with a non-empty codec list it returns exactly
\* the formats whose MIME type contains every given string, in input order;
\* and it never modifies the input list.
C12_FilterCodecKeepsAllMatches ==
    [][CallsFilterCodec =>
        /\ tokens = <<>> => filtered'.out = receiver
        /\ tokens # <<>> => filtered'.out = SelectSeq(receiver, EveryCodecContained)
        /\ receiver' = receiver
        /\ tokens' = tokens]_vars

\* witness of C12: FilterCodec was called with two codec strings on a list
\* of two formats, kept the second, which contains both, and dropped the
\* first, which contains one of them only
C12_Witness ==
    /\ filtered.op = "FilterCodec"
    /\ Len(tokens) = 2
    /\ tokens[1] # tokens[2]
    /\ Len(receiver) = 2
    /\ Contains(receiver[1].MimeType, tokens[1])
    /\ ~Contains(receiver[1].MimeType, tokens[2])
    /\ filtered.out = <<receiver[2]>>

(***************************************************************************)
(* Downloader.Download: one format into the destination file               *)
(***************************************************************************)

\* the format argument of Download: with a direct URL, a cipher payload,
\* both or neither
SingleFormats ==
    {Format(18, "video/mp4;avc1,mp4a", "medium", "360p", 640, 30, 500000, 2,
            "44100", url, cipher) :
        url \in {"", "https://host/18"}, cipher \in {"", "s=sig&url=host/18"}}

\* Download is called with a format of the Video; picked.videoFormat holds
\* the format argument, and the destination is absent, a file or a directory
InitSingle ==
    /\ \E f \in SingleFormats, d \in {"", "out"} :
          /\ call = Call([NewVideo("dQw4w9WgXcQ") EXCEPT
                              !.Title = "title", !.Formats = <<f>>,
                              !.VideoAudioFormats = <<f>>], "", d)
          /\ picked = [videoFormat |-> f, audioFormat |-> NoFormat]
    /\ fsys \in {Files(dir, dest) :
                    dir \in {"exists", "absent"}, dest \in {"absent", "file", "dir"}}
    /\ call.outputDir = "" <=> fsys.dir = "exists"
    /\ fsys.dir = "absent" => fsys.dest = "absent"
    /\ pc = "start"
    /\ stream = ""
    /\ result = NilErr
    /\ cancelled = FALSE
    /\ deferred = <<>>
    /\ log = <<>>
    /\ requests = <<>>
    /\ resolved = <<>>
    /\ IdleSort
    /\ IdleFilter
    /\ IdleParse

\* Download up to its call of videoDLWorker: getOutputFile, then os.Create,
\* which creates the destination or truncates the file that is there
\* ("empty") and fails on a directory; the worker then runs on the format
CreateStep(mkdirOK, createOK) ==
    /\ pc = "start"
    /\ LET mkdir == call.outputDir # "" /\ fsys.dir = "absent"
       IN  IF mkdir /\ ~mkdirOK
           THEN Return(ErrorOf("mkdir failed")) /\ UNCHANGED <<fsys, stream>>
           ELSE IF ~createOK \/ fsys.dest = "dir"
           THEN /\ fsys' = [fsys EXCEPT !.dir = "exists"]
                /\ Return(ErrorOf("create failed"))
                /\ UNCHANGED stream
           ELSE /\ fsys' = [fsys EXCEPT !.dir = "exists", !.dest = "empty"]
                /\ pc' = "resolve"
                /\ stream' = "video"
                /\ UNCHANGED result
    /\ UNCHANGED <<call, picked, cancelled, deferred, log, requests, resolved, idle>>

\* videoDLWorker: io.Copy of the body into the destination, and Download's
\* return of the worker's error; a copy that fails leaves the destination
\* empty or with a part of the body
SingleCopyStep(copyOK, partial) ==
    /\ pc = "copy"
    /\ LET err == IF cancelled THEN ErrContext
                  ELSE IF ~copyOK THEN ErrorOf("copy failed")
                  ELSE NilErr
       IN  /\ Return(err)
           /\ IF err # NilErr
              THEN /\ log' = Failed(err)
                   /\ fsys' = [fsys EXCEPT
                                  !.dest = IF partial THEN "partial" ELSE "empty"]
              ELSE /\ UNCHANGED log
                   /\ fsys' = [fsys EXCEPT !.dest = "file", !.destWrites = @ + 1]
    /\ stream' = ""
    /\ UNCHANGED <<call, picked, cancelled, deferred, requests, resolved, idle>>

NextSingle ==
    \/ \E mkdirOK \in BOOLEAN, createOK \in BOOLEAN : CreateStep(mkdirOK, createOK)
    \/ \E decipher \in DecipherOutcomes : ResolveStep(decipher)
    \/ \E requestOK \in BOOLEAN : GetStep(requestOK)
    \/ \E outcome \in {"200", "404", "error"} : ResponseStep(outcome)
    \/ \E copyOK \in BOOLEAN, partial \in BOOLEAN : SingleCopyStep(copyOK, partial)
    \/ Cancel

SpecSingle == InitSingle /\ [][NextSingle]_vars

\* the download ended in its URL resolution, or in its GET before a
\* response with status 200 was there
FailedBeforeBody ==
    /\ pc = "done"
    /\ log # <<>>
    /\ \/ log[Len(log)].state = "ResolveVideo" /\ log[Len(log)].err # NilErr
       \/ /\ log[Len(log)].state = "DownloadVideo"
          /\ result.kind \in {"invalid request", "transport error",
                              "ErrUnexpectedStatusCode"}

\* C13: when URL resolution fails or the GET fails or returns a status
\* other than 200, Download returns that error without a retry and leaves
\* the destination as it was, which is created or truncated only when a
\* response was there to stream into it.
C13_FailedDownloadKeepsDestination ==
    /\ FailedBeforeBody =>
          /\ result = log[Len(log)].err
          /\ Len(resolved) = 1
          /\ Len(requests) <= 1
          /\ fsys.dest = fsys.dest0
    /\ fsys.dest # fsys.dest0 => requests # <<>>

\* the part of C13 that holds: the error of the failing step is returned and
\* nothing is tried again
C13_AbortsWithoutRetry ==
    FailedBeforeBody =>
        /\ result = log[Len(log)].err
        /\ Len(resolved) = 1
        /\ Len(requests) <= 1

\* a destination file was there, the format had neither URL nor cipher
\* payload, and Download returned ErrCipherNotFound
C13_Witness ==
    /\ FailedBeforeBody
    /\ fsys.dest0 = "file"
    /\ result = ErrCipherNotFound
    /\ requests = <<>>

(***************************************************************************)
(* The comparator as an ordering of a list                                 *)
(***************************************************************************)

\* entries of one list with all its widths and frame rates zero: audio
\* streams of both codecs, and streams without audio channels
OrderDomain ==
    {Format(0, m, "", "", 0, 0, br, ch, "44100", "", "") :
        m \in {"audio/mp4;mp4a", "audio/webm;opus", "text/vtt"},
        br \in {100, 200, 300}, ch \in {0, 2}}
    \cup {Format(0, "video/mp4;avc1", "", "", w, 30, br, 0, "", "", "") :
            w \in {0, 1920}, br \in {100, 200}}

InitOrder ==
    /\ sortList \in {<<a, b, c>> : a \in OrderDomain, b \in OrderDomain,
                                   c \in OrderDomain}
    /\ cmp = NoCmp
    /\ IdleFilter
    /\ IdleParse
    /\ IdleDownload

\* the comparator on every pair of indices i..j of the list, as a sort may
\* call it
CompareAll ==
    /\ cmp.i = 0
    /\ cmp' = [i |-> 1, j |-> Len(sortList),
               less |-> [p \in (DOMAIN sortList) \X (DOMAIN sortList) |->
                            SortFormat(p[1], p[2], sortList)]]
    /\ UNCHANGED <<sortList, filterVars, parseVars, dlVars>>

\* Video.SortFormats on the list
SortList ==
    /\ cmp.i # 0
    /\ sortList # SliceStable(sortList)
    /\ sortList' = SliceStable(sortList)
    /\ cmp' = NoCmp
    /\ UNCHANGED <<filterVars, parseVars, dlVars>>

NextOrder == CompareAll \/ SortList

SpecOrder == InitOrder /\ [][NextOrder]_vars

Before(i, j) == cmp.less[<<i, j>>]

Irreflexive == \A i \in DOMAIN sortList : ~Before(i, i)

Asymmetric == \A i, j \in DOMAIN sortList : Before(i, j) => ~Before(j, i)

Transitive ==
    \A i, j, k \in DOMAIN sortList : (Before(i, j) /\ Before(j, k)) => Before(i, k)

NoCycle ==
    \A i, j, k \in DOMAIN sortList : ~(Before(i, j) /\ Before(j, k) /\ Before(k, i))

\* C14: SortFormat is a strict weak ordering over any format list, a list
\* with audio entries and zero-width, zero-frame-rate entries without audio
\* channels included: irreflexive, asymmetric and transitive, with no three
\* formats a before b, b before c and c before a.
C14_StrictWeakOrdering ==
    cmp.i # 0 => (Irreflexive /\ Asymmetric /\ Transitive /\ NoCycle)

\* the part of C14 that holds: irreflexive and asymmetric
C14_IrreflexiveAsymmetric == cmp.i # 0 => (Irreflexive /\ Asymmetric)

\* C14 on a list that holds audio streams only: all with audio channels
C14_AudioOnlyOrdering ==
    (cmp.i # 0 /\ \A i \in DOMAIN sortList :
                        /\ HasPrefix(sortList[i].MimeType, "audio")
                        /\ sortList[i].AudioChannels > 0)
    => (Irreflexive /\ Asymmetric /\ Transitive /\ NoCycle)

====
